---- MODULE Spec2Model ----
(***************************************************************************)
(* The unified connector front-end as state machines, one specification    *)
(* per controller: the connection onboarding wizard (app/wizard/page.tsx,  *)
(* Spec), the fetchers of the connection explorer                          *)
(* (app/connections/[id]/page.tsx, FetcherSpec), the dashboard             *)
(* (app/dashboard/page.tsx, DashSpec; PagesSpec is the wizard or the       *)
(* dashboard, whichever page is open) and the explorer's tabs and forms    *)
(* (ExplorerSpec, FormsSpec).  The state is the components'                *)
(* useState cells, the requests in flight (each an async handler suspended *)
(* at its await), the pending setTimeout callbacks and the browser         *)
(* location.  Every click handler is one action; an async handler is two:  *)
(* the part before the await (the call) and the continuation after it (the *)
(* response).                                                              *)
(***************************************************************************)
EXTENDS Integers, Sequences, FiniteSets, TLC

VARIABLES
    phase,                \* "constructed" | "mounted" | "unmounted" | "unloaded"
    entry,                \* the callback parameters the page was opened with
    step,                 \* useState<Step>
    connectors,           \* useState<Connector[]>, a sequence of connector ids
    selectedConnectorId,  \* useState<string>
    authMethod,           \* useState<"oauth" | "api_key" | "">
    apiKey,               \* useState("")
    apiBaseUrl,           \* useState("")
    loading,              \* useState(false)
    errorEnvelope,        \* useState<UnifiedEnvelope | null>
    infoMessage,          \* useState<string>
    cancelled,            \* the mount effect's local flag
    inflight,             \* requests awaiting their response, in issue order
    navTimers,            \* setTimeout callbacks not yet run
    navScheduled,         \* history: setTimeout calls made in this session
    route,                \* browser location
    last                  \* history: the handler that ran last and its branch

vars == <<phase, entry, step, connectors, selectedConnectorId, authMethod,
          apiKey, apiBaseUrl, loading, errorEnvelope, infoMessage, cancelled,
          inflight, navTimers, navScheduled, route, last>>

wizardState == <<step, connectors, selectedConnectorId, authMethod, apiKey,
                 apiBaseUrl, loading, errorEnvelope, infoMessage>>

----------------------------------------------------------------------------
(* Bounds and input domains *)

\* Requests the model lets be outstanding at once.
MaxInFlight == 2

\* The connector list the backend serves.
BackendConnectors == <<"c1", "c2">>

ApiKeyInputs == {"", "key"}
ApiBaseUrlInputs == {"", "https://base"}
EntryParams == {"none", "oauth_success", "oauth_error"}
ProviderUrl == "https://provider/authorize"

----------------------------------------------------------------------------
(* Values *)

Steps == <<"select-connector", "select-auth", "auth", "validate", "done">>

StepIndex(s) == CHOOSE i \in 1..Len(Steps) : Steps[i] = s

\* resp.data: null, an array (of connectors), or an object that may carry authUrl.
NullData == [kind |-> "null", items |-> <<>>, hasAuthUrl |-> FALSE, authUrl |-> ""]
ArrayData(xs) == [kind |-> "array", items |-> xs, hasAuthUrl |-> FALSE, authUrl |-> ""]
ObjectData(has, url) == [kind |-> "object", items |-> <<>>, hasAuthUrl |-> has, authUrl |-> url]

\* UnifiedEnvelope | null.  All values carry the same fields so that they compare.
Null == [tag |-> "null", ok |-> TRUE, code |-> "", data |-> NullData]
OkEnvelope(d) == [tag |-> "env", ok |-> TRUE, code |-> "", data |-> d]
FailEnvelope(c) == [tag |-> "env", ok |-> FALSE, code |-> c, data |-> NullData]

\* What an awaited call can produce: an envelope, or an exception.
Returned(e) == [thrown |-> FALSE, env |-> e]
Thrown == [thrown |-> TRUE, env |-> Null]

BackendFailure == FailEnvelope("BACKEND_ERROR")

ListOutcomes ==
    { Returned(OkEnvelope(ArrayData(BackendConnectors))),
      Returned(OkEnvelope(ArrayData(<<>>))),
      Returned(OkEnvelope(NullData)),
      Returned(BackendFailure),
      Thrown }

OAuthOutcomes ==
    { Returned(OkEnvelope(ObjectData(TRUE, ProviderUrl))),
      Returned(OkEnvelope(ObjectData(TRUE, ""))),
      Returned(OkEnvelope(ObjectData(FALSE, ""))),
      Returned(OkEnvelope(NullData)),
      Returned(BackendFailure),
      Thrown }

CallOutcomes ==
    { Returned(OkEnvelope(NullData)),
      Returned(BackendFailure),
      Thrown }

Request(op, id, key, base) ==
    [op |-> op, connectorId |-> id, apiKey |-> key, apiBaseUrl |-> base]

RemoveAt(s, i) == SubSeq(s, 1, i - 1) \o SubSeq(s, i + 1, Len(s))

Ran(op, res) == [op |-> op, res |-> res]

----------------------------------------------------------------------------
(* Derived values and render-time conditions *)

Range(s) == { s[i] : i \in 1..Len(s) }

\* connectors.find((c) => c.id === selectedConnectorId) ?? null, as "is not null".
hasSelectedConnector == selectedConnectorId \in Range(connectors)

\* Faulty variant: Next is offered whether or not a connector is selected.
canContinueFromConnectorAlways == TRUE

canContinueFromConnector == selectedConnectorId # ""

canContinueFromAuth == authMethod # ""

\* Faulty variant: the action buttons are never disabled.
actionNeverDisabled == FALSE

\* disabled={loading} on Start OAuth, Save and Continue, Validate.
actionDisabled == loading

\* Faulty variant: the empty-key check is missing.
missingApiKeyUnchecked(key) == FALSE

\* if (!apiKey)
missingApiKey(key) == key = ""

\* Faulty variant: the handler takes the provider's address for granted.
authUrlOfAssumed(data) ==
    IF data.kind = "object" /\ data.hasAuthUrl /\ data.authUrl # ""
    THEN data.authUrl ELSE ProviderUrl

\* The url of handleInitiateOAuth; "" stands for undefined as well (both falsy).
authUrlOf(data) ==
    IF data.kind = "object" /\ data.hasAuthUrl THEN data.authUrl ELSE ""

\* Faulty variant: Back at validate returns to the auth method selection.
goBackStepSkipsAuth(s) ==
    CASE s = "select-auth" -> "select-connector"
      [] s = "auth" -> "select-auth"
      [] s = "validate" -> "select-auth"
      [] OTHER -> s

\* The step goBack sets, from the step it closes over.
goBackStep(s) ==
    CASE s = "select-auth" -> "select-connector"
      [] s = "auth" -> "select-auth"
      [] s = "validate" -> "auth"
      [] OTHER -> s

\* The step after the continuation of handleCreateApiKeyConnection.
stepAfterCreate(out, s) ==
    IF ~out.thrown /\ out.env.ok THEN "validate" ELSE s

\* Faulty variant: setStep("done") runs whatever the response.
stepAfterValidateAlwaysDone(out, s) == "done"

\* Faulty variant: a failed validation sends the wizard back to auth.
stepAfterValidateRegresses(out, s) ==
    IF ~out.thrown /\ out.env.ok THEN "done" ELSE "auth"

\* The step after the continuation of handleValidate.
stepAfterValidate(out, s) ==
    IF ~out.thrown /\ out.env.ok THEN "done" ELSE s

\* setTimeout calls made by the continuation of handleValidate.
timersAfterValidate(out) ==
    IF ~out.thrown /\ out.env.ok THEN 1 ELSE 0

\* The envelope a handler's else / catch branch attaches; cur when neither runs.
errorAfter(out, clientCode, cur) ==
    IF out.thrown THEN FailEnvelope(clientCode)
    ELSE IF out.env.ok THEN cur
    ELSE out.env

----------------------------------------------------------------------------
(* The other controllers.  Each has its own specification; in the
   specification of one controller the others are at rest. *)

VARIABLES
    response,   \* the HTTP response handed to a fetcher of connections/[id]
    path,       \* which fetcher consumed it: "none" | "read" | "create" | "comment"
    result      \* what that fetcher produced

fetchVars == <<response, path, result>>

\* An optional string field of a JSON object.
None == [has |-> FALSE, value |-> ""]
Some(t) == [has |-> TRUE, value |-> t]

\* The error member of a body: absent, or an object with optional message and code.
NoError == [present |-> FALSE, message |-> None, code |-> None]
ErrorObject(m, c) == [present |-> TRUE, message |-> m, code |-> c]

\* A parsed body.  kind: "null" | "string" | "array" | "object"; text is the
\* value of a string; the other fields are the members of an object
\* (ok: "absent" | "true" | "false" | "other", data: "absent" | "null" | "payload").
JValue(kind, text, ok, data, error, message) ==
    [kind |-> kind, text |-> text, ok |-> ok, data |-> data, error |-> error,
     message |-> message]
JNull == JValue("null", "", "absent", "absent", NoError, None)
JString(t) == JValue("string", t, "absent", "absent", NoError, None)
JArray == JValue("array", "", "absent", "absent", NoError, None)
JObject(ok, data, error, message) == JValue("object", "", ok, data, error, message)

\* The member value of an envelope's data when it is neither absent nor null.
Payload == JValue("payload", "", "absent", "absent", NoError, None)

\* What a fetcher hands to its caller: the resolved value, or the thrown Error
\* (an Error carries a message and nothing else, so its code is always absent).
NoResult == [tag |-> "none", message |-> "", code |-> None, data |-> JNull]
Success(d) == [tag |-> "success", message |-> "", code |-> None, data |-> d]
Failure(m) == [tag |-> "failure", message |-> m, code |-> None, data |-> JNull]

VARIABLES
    impl,             \* which DashboardPage of dashboard/page.tsx runs: "state" | "swr"
    dashPhase,        \* "rest" | "constructed" | "mounted"
    server,           \* the backend's connections: id -> status, "absent" if none
    dashData,         \* "state": useState<ConnectionSummary[] | null>
    dashLoading,      \* "state": useState(true), the page's loading
    dashError,        \* "state": useState<string | null>, "" for null
    busy,             \* "state": useState<Record<string, boolean>>
    connections,      \* "swr": data of useSWR("/api/connections")
    connectionsError, \* "swr": error of useSWR("/api/connections"), as a flag
    validatingId,     \* "swr": useState<string | null>, "" for null
    revokingId,       \* "swr": useState<string | null>, "" for null
    dashInflight,     \* requests awaiting their response, in issue order
    newest,           \* history: the list request issued last, what the backend
                      \* read for it and how it was answered
    dashLast          \* history: the handler that ran last, its id and branch

dashVars == <<impl, dashPhase, server, dashData, dashLoading, dashError, busy,
              connections, connectionsError, validatingId, revokingId,
              dashInflight, newest, dashLast>>

ConnIds == {"c1", "c2"}

\* A list of connections as a map from id to status; "absent": not in the list.
EmptyList == [id \in ConnIds |-> "absent"]

\* data of the list: not loaded yet (null, undefined), or a list.
NotLoaded == [loaded |-> FALSE, items |-> EmptyList]
Loaded(items) == [loaded |-> TRUE, items |-> items]

DashRan(op, id, res) == [op |-> op, id |-> id, res |-> res]

\* useState initial values of both pages.
DashFresh ==
    /\ dashData = NotLoaded
    /\ dashLoading = TRUE
    /\ dashError = ""
    /\ busy = [id \in ConnIds |-> FALSE]
    /\ connections = NotLoaded
    /\ connectionsError = FALSE
    /\ validatingId = ""
    /\ revokingId = ""
    /\ dashInflight = <<>>
    /\ newest = [snap |-> EmptyList, res |-> "none"]

DashboardAtRest ==
    /\ impl = "none"
    /\ dashPhase = "rest"
    /\ server = EmptyList
    /\ DashFresh
    /\ dashLast = DashRan("none", "", "")

VARIABLES
    tab,          \* URL query: tab, "" when absent
    itemId,       \* URL query: itemId, "" when absent
    q,            \* URL query: q, "" when absent
    containerId,  \* URL query: containerId, "" when absent
    activeTab,    \* ConnectionDetailPage: useState<TabKey>(tabParam)
    search,       \* ItemsPanel: useState(qParam || "")
    creating,     \* ItemsPanel: useState(false)
    formTitle,    \* ItemsPanel: form.title, a sequence of characters
    comment,      \* ItemDetail: useState(""), a sequence of characters
    saving,       \* ItemDetail: useState(false)
    cache,        \* the SWR cache: key -> "none" | "loaded" | "error"
    expPhase,     \* "rest" | "constructed" | "mounted"
    expInflight,  \* requests awaiting their response, in issue order
    expLast       \* history: the handler that ran last and its branch

expVars == <<tab, itemId, q, containerId, activeTab, search, creating, formTitle,
             comment, saving, cache, expPhase, expInflight, expLast>>

ItemIds == {"i1"}
Queries == {"", "s"}

\* endpoints.items, endpoints.item, endpoints.comments of one connection, as
\* cache keys.
itemsKey(qq) == "items?q=" \o qq
itemKey(iid) == "items/" \o iid
commentsKey(iid) == "items/" \o iid \o "/comments"

Keys ==
    {itemsKey(qq) : qq \in Queries}
      \cup {itemKey(iid) : iid \in ItemIds} \cup {commentsKey(iid) : iid \in ItemIds}

\* useState initial values of the panels and an empty cache.
ExplorerFresh ==
    /\ creating = FALSE
    /\ formTitle = <<>>
    /\ comment = <<>>
    /\ saving = FALSE
    /\ cache = [k \in Keys |-> "none"]
    /\ expInflight = <<>>

ExplorerAtRest ==
    /\ tab = ""
    /\ itemId = ""
    /\ q = ""
    /\ containerId = ""
    /\ activeTab = "containers"
    /\ search = ""
    /\ ExplorerFresh
    /\ expPhase = "rest"
    /\ expLast = Ran("none", "")

FetchersAtRest ==
    /\ response = [status |-> 0, json |-> FALSE, malformed |-> FALSE, body |-> JNull]
    /\ path = "none"
    /\ result = NoResult

----------------------------------------------------------------------------
(* Construction *)

Fresh(e) ==
    /\ phase = "constructed"
    /\ entry = e
    /\ step = "select-connector"
    /\ connectors = <<>>
    /\ selectedConnectorId = ""
    /\ authMethod = ""
    /\ apiKey = ""
    /\ apiBaseUrl = ""
    /\ loading = FALSE
    /\ errorEnvelope = Null
    /\ infoMessage = ""
    /\ cancelled = FALSE
    /\ inflight = <<>>
    /\ navTimers = 0
    /\ navScheduled = 0
    /\ route = "/wizard"
    /\ last = Ran("construct", "")

\* The wizard is constructed; nothing else is rendered.
Init == Fresh("none") /\ FetchersAtRest /\ DashboardAtRest /\ ExplorerAtRest

----------------------------------------------------------------------------
(* Mount, teardown, timers *)

\* useEffect(..., []): fetchConnectors up to its await.
FetchConnectors ==
    /\ phase = "constructed"
    /\ phase' = "mounted"
    /\ cancelled' = FALSE
    /\ loading' = TRUE
    /\ errorEnvelope' = Null
    /\ inflight' = Append(inflight, Request("listConnectors", "", "", ""))
    /\ last' = Ran("fetchConnectors", "call")
    /\ UNCHANGED <<entry, step, connectors, selectedConnectorId, authMethod,
                   apiKey, apiBaseUrl, infoMessage, navTimers, navScheduled, route>>

\* Faulty variant: the continuation of fetchConnectors ignores the flag.
suppressedNever == FALSE

\* if (!cancelled) in fetchConnectors, as "the updates are skipped".
suppressed == cancelled

\* fetchConnectors after its await: every update is behind !cancelled.
FetchConnectorsResponse(i, out) ==
    /\ phase \in {"mounted", "unmounted"}
    /\ inflight[i].op = "listConnectors"
    /\ inflight' = RemoveAt(inflight, i)
    /\ IF suppressed
       THEN UNCHANGED <<connectors, errorEnvelope, loading>>
       ELSE /\ connectors' =
                 IF ~out.thrown /\ out.env.ok /\ out.env.data.kind = "array"
                 THEN out.env.data.items ELSE connectors
            /\ errorEnvelope' =
                 IF out.thrown THEN FailEnvelope("CLIENT_FETCH_ERROR")
                 ELSE IF out.env.ok /\ out.env.data.kind = "array" THEN errorEnvelope
                 ELSE out.env
            /\ loading' = FALSE
    /\ last' = Ran("fetchConnectors",
                   IF out.thrown THEN "throw" ELSE IF out.env.ok THEN "ok" ELSE "fail")
    /\ UNCHANGED <<phase, entry, step, selectedConnectorId, authMethod, apiKey,
                   apiBaseUrl, infoMessage, cancelled, navTimers, navScheduled, route>>

\* The user leaves the page inside the application: the effect's cleanup runs.
Unmount ==
    /\ phase = "mounted"
    /\ phase' = "unmounted"
    /\ cancelled' = TRUE
    /\ route' = "/elsewhere"
    /\ last' = Ran("unmount", "")
    /\ UNCHANGED <<entry, wizardState, inflight, navTimers, navScheduled>>

\* The setTimeout callback of handleValidate: router.push("/").
NavTimerFires ==
    /\ phase \in {"mounted", "unmounted"}
    /\ navTimers > 0
    /\ navTimers' = navTimers - 1
    /\ route' = "/"
    /\ phase' = "unmounted"
    /\ cancelled' = TRUE
    /\ last' = Ran("navTimer", "")
    /\ UNCHANGED <<entry, wizardState, inflight, navScheduled>>

\* The document is replaced after window.location.href was assigned: its
\* requests and timers go with it.
Unload ==
    /\ phase \in {"mounted", "unmounted"}
    /\ route = ProviderUrl
    /\ phase' = "unloaded"
    /\ inflight' = <<>>
    /\ navTimers' = 0
    /\ last' = Ran("unload", "")
    /\ UNCHANGED <<entry, wizardState, cancelled, navScheduled, route>>

\* The provider sends the browser back to /wizard with callback parameters: the
\* component is constructed anew (the useState initial values).
OAuthReturn(e) ==
    /\ phase = "unloaded"
    /\ e \in EntryParams \ {"none"}
    /\ phase' = "constructed"
    /\ entry' = e
    /\ step' = "select-connector"
    /\ connectors' = <<>>
    /\ selectedConnectorId' = ""
    /\ authMethod' = ""
    /\ apiKey' = ""
    /\ apiBaseUrl' = ""
    /\ loading' = FALSE
    /\ errorEnvelope' = Null
    /\ infoMessage' = ""
    /\ cancelled' = FALSE
    /\ inflight' = <<>>
    /\ navTimers' = 0
    /\ navScheduled' = 0
    /\ route' = "/wizard"
    /\ last' = Ran("construct", "")

----------------------------------------------------------------------------
(* Click handlers without a backend call.  Each is enabled where its button
   or input is rendered. *)

\* ConnectorGrid onSelect
onSelect(id) ==
    /\ phase = "mounted"
    /\ step = "select-connector"
    /\ id \in Range(connectors)
    /\ selectedConnectorId' = id
    /\ errorEnvelope' = Null
    /\ last' = Ran("onSelect", id)
    /\ UNCHANGED <<phase, entry, step, connectors, authMethod, apiKey, apiBaseUrl,
                   loading, infoMessage, cancelled, inflight, navTimers,
                   navScheduled, route>>

handleNextFromConnector ==
    /\ phase = "mounted"
    /\ step = "select-connector"
    /\ canContinueFromConnector
    /\ step' = "select-auth"
    /\ last' = Ran("handleNextFromConnector", "")
    /\ UNCHANGED <<phase, entry, connectors, selectedConnectorId, authMethod, apiKey,
                   apiBaseUrl, loading, errorEnvelope, infoMessage, cancelled,
                   inflight, navTimers, navScheduled, route>>

\* AuthMethodSelect onChange
onChangeAuthMethod(v) ==
    /\ phase = "mounted"
    /\ step = "select-auth"
    /\ v \in {"oauth", "api_key"}
    /\ authMethod' = v
    /\ errorEnvelope' = Null
    /\ last' = Ran("onChangeAuthMethod", v)
    /\ UNCHANGED <<phase, entry, step, connectors, selectedConnectorId, apiKey,
                   apiBaseUrl, loading, infoMessage, cancelled, inflight, navTimers,
                   navScheduled, route>>

handleNextFromAuth ==
    /\ phase = "mounted"
    /\ step = "select-auth"
    /\ canContinueFromAuth
    /\ step' = "auth"
    /\ last' = Ran("handleNextFromAuth", "")
    /\ UNCHANGED <<phase, entry, connectors, selectedConnectorId, authMethod, apiKey,
                   apiBaseUrl, loading, errorEnvelope, infoMessage, cancelled,
                   inflight, navTimers, navScheduled, route>>

\* Back is rendered at select-auth, auth and validate, never disabled.
goBack ==
    /\ phase = "mounted"
    /\ step \in {"select-auth", "auth", "validate"}
    /\ errorEnvelope' = Null
    /\ infoMessage' = ""
    /\ step' = goBackStep(step)
    /\ last' = Ran("goBack", step)
    /\ UNCHANGED <<phase, entry, connectors, selectedConnectorId, authMethod, apiKey,
                   apiBaseUrl, loading, cancelled, inflight, navTimers,
                   navScheduled, route>>

\* TextField "API Key" onChange
setApiKey(v) ==
    /\ phase = "mounted"
    /\ step = "auth"
    /\ authMethod = "api_key"
    /\ v \in ApiKeyInputs \ {apiKey}
    /\ apiKey' = v
    /\ last' = Ran("setApiKey", v)
    /\ UNCHANGED <<phase, entry, step, connectors, selectedConnectorId, authMethod,
                   apiBaseUrl, loading, errorEnvelope, infoMessage, cancelled,
                   inflight, navTimers, navScheduled, route>>

\* TextField "API Base URL (optional)" onChange
setApiBaseUrl(v) ==
    /\ phase = "mounted"
    /\ step = "auth"
    /\ authMethod = "api_key"
    /\ v \in ApiBaseUrlInputs \ {apiBaseUrl}
    /\ apiBaseUrl' = v
    /\ last' = Ran("setApiBaseUrl", v)
    /\ UNCHANGED <<phase, entry, step, connectors, selectedConnectorId, authMethod,
                   apiKey, loading, errorEnvelope, infoMessage, cancelled,
                   inflight, navTimers, navScheduled, route>>

----------------------------------------------------------------------------
(* Click handlers with a backend call *)

Branch(out) == IF out.thrown THEN "throw" ELSE IF out.env.ok THEN "ok" ELSE "fail"

\* Faulty variant: loading is released at the end of the try block only.
loadingAfterTryOnly(out) == out.thrown

\* finally { setLoading(false); } of the three handlers.
loadingAfter(out) == FALSE

\* handleInitiateOAuth up to its await ("Start OAuth").
handleInitiateOAuth ==
    /\ phase = "mounted"
    /\ step = "auth"
    /\ authMethod = "oauth"
    /\ ~actionDisabled
    /\ Len(inflight) < MaxInFlight
    /\ IF ~hasSelectedConnector
       THEN UNCHANGED <<loading, errorEnvelope, infoMessage, inflight>>
       ELSE /\ loading' = TRUE
            /\ errorEnvelope' = Null
            /\ infoMessage' = ""
            /\ inflight' = Append(inflight,
                                  Request("initiateOAuth", selectedConnectorId, "", ""))
    /\ last' = Ran("handleInitiateOAuth", "call")
    /\ UNCHANGED <<phase, entry, step, connectors, selectedConnectorId, authMethod,
                   apiKey, apiBaseUrl, cancelled, navTimers, navScheduled, route>>

\* What initiateOAuth answered: an exception, a failure envelope, an ok
\* envelope that carries a non-empty authUrl, or an ok envelope without one.
oauthReply(out) ==
    IF out.thrown THEN "throw"
    ELSE IF ~out.env.ok THEN "fail"
    ELSE IF /\ out.env.data.kind = "object"
            /\ out.env.data.hasAuthUrl
            /\ out.env.data.authUrl # ""
         THEN "redirect" ELSE "missing_url"

\* handleInitiateOAuth after its await.
InitiateOAuthResponse(i, out) ==
    /\ phase \in {"mounted", "unmounted"}
    /\ inflight[i].op = "initiateOAuth"
    /\ inflight' = RemoveAt(inflight, i)
    /\ LET url == IF out.thrown THEN "" ELSE authUrlOf(out.env.data)
           redirect == ~out.thrown /\ out.env.ok /\ url # ""
       IN /\ infoMessage' =
               IF redirect THEN "Redirecting to provider for authorization..."
               ELSE infoMessage
          /\ route' = IF redirect THEN url ELSE route
          /\ errorEnvelope' =
               IF out.thrown THEN FailEnvelope("CLIENT_INITIATE_OAUTH_ERROR")
               ELSE IF ~out.env.ok THEN out.env
               ELSE IF url = "" THEN FailEnvelope("MISSING_AUTH_URL")
               ELSE errorEnvelope
          /\ last' = Ran("handleInitiateOAuth", oauthReply(out))
    /\ loading' = loadingAfter(out)
    /\ UNCHANGED <<phase, entry, step, connectors, selectedConnectorId, authMethod,
                   apiKey, apiBaseUrl, cancelled, navTimers, navScheduled>>

\* handleCreateApiKeyConnection up to its await ("Save and Continue").
handleCreateApiKeyConnection ==
    /\ phase = "mounted"
    /\ step = "auth"
    /\ authMethod = "api_key"
    /\ ~actionDisabled
    /\ Len(inflight) < MaxInFlight
    /\ IF ~hasSelectedConnector
       THEN /\ UNCHANGED <<loading, errorEnvelope, infoMessage, inflight>>
            /\ last' = Ran("handleCreateApiKeyConnection", "no_connector")
       ELSE IF missingApiKey(apiKey)
       THEN /\ errorEnvelope' = FailEnvelope("MISSING_API_KEY")
            /\ UNCHANGED <<loading, infoMessage, inflight>>
            /\ last' = Ran("handleCreateApiKeyConnection", "missing_key")
       ELSE /\ loading' = TRUE
            /\ errorEnvelope' = Null
            /\ infoMessage' = "Creating connection..."
            /\ inflight' = Append(inflight,
                  Request("createApiKeyConnection", selectedConnectorId, apiKey, apiBaseUrl))
            /\ last' = Ran("handleCreateApiKeyConnection", "call")
    /\ UNCHANGED <<phase, entry, step, connectors, selectedConnectorId, authMethod,
                   apiKey, apiBaseUrl, cancelled, navTimers, navScheduled, route>>

\* handleCreateApiKeyConnection after its await.
CreateApiKeyConnectionResponse(i, out) ==
    /\ phase \in {"mounted", "unmounted"}
    /\ inflight[i].op = "createApiKeyConnection"
    /\ inflight' = RemoveAt(inflight, i)
    /\ infoMessage' =
         IF ~out.thrown /\ out.env.ok THEN "Connection created. Validating..."
         ELSE infoMessage
    /\ step' = stepAfterCreate(out, step)
    /\ errorEnvelope' = errorAfter(out, "CLIENT_CREATE_API_KEY_ERROR", errorEnvelope)
    /\ loading' = loadingAfter(out)
    /\ last' = Ran("handleCreateApiKeyConnection", Branch(out))
    /\ UNCHANGED <<phase, entry, connectors, selectedConnectorId, authMethod, apiKey,
                   apiBaseUrl, cancelled, navTimers, navScheduled, route>>

\* handleValidate up to its await ("Validate").
handleValidate ==
    /\ phase = "mounted"
    /\ step = "validate"
    /\ ~actionDisabled
    /\ Len(inflight) < MaxInFlight
    /\ IF ~hasSelectedConnector
       THEN UNCHANGED <<loading, errorEnvelope, infoMessage, inflight>>
       ELSE /\ loading' = TRUE
            /\ errorEnvelope' = Null
            /\ infoMessage' = "Validating connection..."
            /\ inflight' = Append(inflight,
                                  Request("validateConnection", selectedConnectorId, "", ""))
    /\ last' = Ran("handleValidate", "call")
    /\ UNCHANGED <<phase, entry, step, connectors, selectedConnectorId, authMethod,
                   apiKey, apiBaseUrl, cancelled, navTimers, navScheduled, route>>

\* handleValidate after its await.
ValidateResponse(i, out) ==
    /\ phase \in {"mounted", "unmounted"}
    /\ inflight[i].op = "validateConnection"
    /\ inflight' = RemoveAt(inflight, i)
    /\ step' = stepAfterValidate(out, step)
    /\ infoMessage' =
         IF ~out.thrown /\ out.env.ok
         THEN "Validation successful. Redirecting to dashboard..."
         ELSE infoMessage
    /\ navTimers' = navTimers + timersAfterValidate(out)
    /\ navScheduled' = navScheduled + timersAfterValidate(out)
    /\ errorEnvelope' = errorAfter(out, "CLIENT_VALIDATE_ERROR", errorEnvelope)
    /\ loading' = loadingAfter(out)
    /\ last' = Ran("handleValidate", Branch(out))
    /\ UNCHANGED <<phase, entry, connectors, selectedConnectorId, authMethod, apiKey,
                   apiBaseUrl, cancelled, route>>

----------------------------------------------------------------------------

\* No step of the wizard touches another controller.
OthersAtRest == UNCHANGED <<fetchVars, dashVars, expVars>>

Next ==
    \/ FetchConnectors /\ OthersAtRest
    \/ \E i \in 1..Len(inflight), out \in ListOutcomes : FetchConnectorsResponse(i, out) /\ OthersAtRest
    \/ Unmount /\ OthersAtRest
    \/ NavTimerFires /\ OthersAtRest
    \/ Unload /\ OthersAtRest
    \/ \E e \in EntryParams : OAuthReturn(e) /\ OthersAtRest
    \/ \E id \in Range(BackendConnectors) : onSelect(id) /\ OthersAtRest
    \/ handleNextFromConnector /\ OthersAtRest
    \/ \E v \in {"oauth", "api_key"} : onChangeAuthMethod(v) /\ OthersAtRest
    \/ handleNextFromAuth /\ OthersAtRest
    \/ goBack /\ OthersAtRest
    \/ \E v \in ApiKeyInputs : setApiKey(v) /\ OthersAtRest
    \/ \E v \in ApiBaseUrlInputs : setApiBaseUrl(v) /\ OthersAtRest
    \/ handleInitiateOAuth /\ OthersAtRest
    \/ \E i \in 1..Len(inflight), out \in OAuthOutcomes : InitiateOAuthResponse(i, out) /\ OthersAtRest
    \/ handleCreateApiKeyConnection /\ OthersAtRest
    \/ \E i \in 1..Len(inflight), out \in CallOutcomes :
          CreateApiKeyConnectionResponse(i, out) /\ OthersAtRest
    \/ handleValidate /\ OthersAtRest
    \/ \E i \in 1..Len(inflight), out \in CallOutcomes : ValidateResponse(i, out) /\ OthersAtRest

allVars == <<vars, fetchVars, dashVars, expVars>>

Spec == Init /\ [][Next]_allVars

----------------------------------------------------------------------------
(* Properties *)

ActionOps == {"handleInitiateOAuth", "handleCreateApiKeyConnection", "handleValidate"}

\* The branches of a handler's continuation (after the await).
ResponseBranches == {"ok", "fail", "throw", "redirect", "missing_url"}

ClientCode(op) ==
    CASE op = "handleInitiateOAuth" -> "CLIENT_INITIATE_OAUTH_ERROR"
      [] op = "handleCreateApiKeyConnection" -> "CLIENT_CREATE_API_KEY_ERROR"
      [] op = "handleValidate" -> "CLIENT_VALIDATE_ERROR"

ActionRequestsInFlight ==
    Cardinality({ i \in 1..Len(inflight) : inflight[i].op # "listConnectors" })

\* C1: when initiateOAuth, createApiKeyConnection or validateConnection returns
\* a failure envelope or throws, the continuation attaches the returned envelope
\* (or the synthesized CLIENT_* one) as errorEnvelope and leaves the step as it
\* found it.
C1_FailureAttachesAndStays ==
    [][ (last'.op \in ActionOps /\ last'.res \in {"fail", "throw"}) =>
          /\ step' = step
          /\ errorEnvelope' = IF last'.res = "fail" THEN BackendFailure
                              ELSE FailEnvelope(ClientCode(last'.op)) ]_vars

C1_Witness ==
    /\ last = Ran("handleValidate", "throw")
    /\ step = "validate"
    /\ errorEnvelope = FailEnvelope("CLIENT_VALIDATE_ERROR")

C3_EmptyKeyNoCall ==
    [][ (/\ last'.op = "handleCreateApiKeyConnection"
         /\ last'.res \notin ResponseBranches
         /\ apiKey = "") =>
          /\ inflight' = inflight
          /\ errorEnvelope' = FailEnvelope("MISSING_API_KEY")
          /\ step' = "auth"
          /\ loading' = FALSE ]_vars

C3_Witness ==
    /\ last = Ran("handleCreateApiKeyConnection", "missing_key")
    /\ apiKey = ""
    /\ errorEnvelope = FailEnvelope("MISSING_API_KEY")
    /\ inflight = <<>>
    /\ step = "auth"
    /\ ~loading

\* C4: past select-connector a connector id is set, and past select-auth the
\* auth method is oauth or api_key.
C4_ForwardGuards ==
    /\ step \in {"select-auth", "auth", "validate", "done"} => selectedConnectorId # ""
    /\ step \in {"auth", "validate", "done"} => authMethod \in {"oauth", "api_key"}

C4_Witness ==
    /\ last = Ran("handleNextFromAuth", "")
    /\ step = "auth"
    /\ selectedConnectorId = "c2"
    /\ authMethod = "api_key"

\* C5: selecting a different connector resets the auth method and clears the
\* API key and the API base URL.
C5_ConnectorChangeResets ==
    [][ (/\ last'.op = "onSelect"
         /\ selectedConnectorId # ""
         /\ selectedConnectorId' # selectedConnectorId) =>
          /\ authMethod' = ""
          /\ apiKey' = ""
          /\ apiBaseUrl' = "" ]_vars

\* C6: at most one of initiateOAuth, createApiKeyConnection, validateConnection
\* is in flight, and none is issued while loading is true.
C6_OneActionInFlight ==
    /\ [](ActionRequestsInFlight <= 1)
    /\ [][ (last'.op \in ActionOps /\ Len(inflight') > Len(inflight)) => ~loading ]_vars

C6_Witness ==
    /\ last = Ran("handleValidate", "call")
    /\ ActionRequestsInFlight = 1
    /\ loading

\* C7: an accepted API-key submission sets the step to validate only from auth,
\* and a successful validation sets it to done only from validate.
C7_ForwardOnlyFromSource ==
    [][ /\ last' = Ran("handleCreateApiKeyConnection", "ok") => step = "auth"
        /\ last' = Ran("handleValidate", "ok") => step = "validate" ]_vars

\* C8: Back moves the step one state left (select-auth to select-connector, auth
\* to select-auth, validate to auth); at select-connector and at done there is
\* no Back and goBack would leave the step as it is.
C8_BackOneLeft ==
    /\ goBackStep("select-connector") = "select-connector"
    /\ goBackStep("done") = "done"
    /\ [][ last'.op = "goBack" =>
             /\ step \in {"select-auth", "auth", "validate"}
             /\ StepIndex(step') = StepIndex(step) - 1 ]_vars

C8_Witness ==
    /\ last = Ran("goBack", "validate")
    /\ step = "auth"

\* C9: the step moves to an earlier state only by Back (or when the page is
\* constructed anew); no continuation of a backend call moves it backward, and
\* a failed validation leaves it at validate.
C9_NoAutomaticRegression ==
    /\ [][ StepIndex(step') < StepIndex(step) =>
             last'.op = "goBack" \/ phase' = "constructed" ]_vars
    /\ [][ last'.res \in ResponseBranches => StepIndex(step') >= StepIndex(step) ]_vars
    /\ [][ (last'.op = "handleValidate" /\ last'.res \in {"fail", "throw"}
            /\ step = "validate") => step' = "validate" ]_vars

C9_Witness ==
    /\ last = Ran("handleValidate", "fail")
    /\ step = "validate"
    /\ errorEnvelope = BackendFailure

\* C10: once mounted with callback parameters reporting OAuth success the step
\* is validate; with callback parameters reporting failure the step is auth and
\* an error envelope is attached.
C10_OAuthReturn ==
    (phase = "mounted" /\ last = Ran("fetchConnectors", "call")) =>
        /\ entry = "oauth_success" => step = "validate"
        /\ entry = "oauth_error" =>
              step = "auth" /\ errorEnvelope.tag = "env" /\ ~errorEnvelope.ok

\* The request a handler awaits.
RequestOf(handler) ==
    CASE handler = "fetchConnectors" -> "listConnectors"
      [] handler = "handleInitiateOAuth" -> "initiateOAuth"
      [] handler = "handleCreateApiKeyConnection" -> "createApiKeyConnection"
      [] handler = "handleValidate" -> "validateConnection"
      [] OTHER -> "none"

\* What the user can do on the rendered wizard.
WizardUserAction ==
    \/ \E id \in Range(BackendConnectors) : onSelect(id)
    \/ handleNextFromConnector
    \/ \E v \in {"oauth", "api_key"} : onChangeAuthMethod(v)
    \/ handleNextFromAuth
    \/ goBack
    \/ \E v \in ApiKeyInputs : setApiKey(v)
    \/ \E v \in ApiBaseUrlInputs : setApiBaseUrl(v)
    \/ handleInitiateOAuth
    \/ handleCreateApiKeyConnection
    \/ handleValidate

\* Some user action is enabled that issues request op.
ReissueEnabled(op) ==
    ENABLED (/\ WizardUserAction
             /\ Len(inflight') = Len(inflight) + 1
             /\ inflight'[Len(inflight')].op = op)

\* C11 (wizard): whenever a backend call has just failed and its error is shown,
\* some user action is enabled that issues the failed request again.
C11_EveryErrorHasRetry ==
    (/\ phase = "mounted"
     /\ last.res \in {"fail", "throw"}
     /\ errorEnvelope.tag = "env" /\ ~errorEnvelope.ok) =>
        ReissueEnabled(RequestOf(last.op))

\* C12: once the wizard is torn down, the continuation of fetchConnectors
\* changes none of connectors, errorEnvelope, loading.
C12_LateFetchSuppressed ==
    [][ (/\ last'.op = "fetchConnectors"
         /\ last'.res # "call"
         /\ phase = "unmounted") =>
          UNCHANGED <<connectors, errorEnvelope, loading>> ]_vars

C12_Witness ==
    /\ phase = "unmounted"
    /\ last = Ran("fetchConnectors", "ok")
    /\ connectors = <<>>
    /\ loading
    /\ inflight = <<>>

----------------------------------------------------------------------------
(* connections/[id]: the fetchers.  A response is drawn at construction and
   one of the three fetchers consumes it. *)

Statuses == {200, 201, 404, 500}

\* Response.ok of the Fetch API.
resOk(status) == status \in 200..299

ErrorMembers ==
    {NoError, ErrorObject(None, None), ErrorObject(Some(""), None),
     ErrorObject(Some("E"), None), ErrorObject(None, Some("CODE")),
     ErrorObject(Some("E"), Some("CODE"))}

JsonBodies ==
    {JNull, JString(""), JString("T"), JArray}
      \cup {JObject(ok, data, error, message) :
               ok \in {"absent", "true", "false", "other"},
               data \in {"absent", "null", "payload"},
               error \in ErrorMembers,
               message \in {None, Some(""), Some("M")}}

\* json: the content-type header includes application/json.  malformed: the
\* body text is not valid JSON, and body is then that text.  The bodies sent
\* with another content type are texts that are not valid JSON.
Responses ==
    {[status |-> st, json |-> TRUE, malformed |-> FALSE, body |-> b] :
        st \in Statuses, b \in JsonBodies}
      \cup {[status |-> st, json |-> j, malformed |-> TRUE, body |-> JString(t)] :
               st \in Statuses, j \in BOOLEAN, t \in {"", "<html>"}}

\* The message of the SyntaxError res.json() rejects with.
ParseErrorMessage == "Unexpected token in JSON"

\* `Request failed: ${res.status}`
RequestFailed(status) == "Request failed: " \o ToString(status)

\* a || b on optional strings: absent and "" are falsy.
OrElse(a, b) == IF a.has /\ a.value # "" THEN a ELSE b

\* be?.message
errorMessageOf(b) == IF b.error.present THEN b.error.message ELSE None

\* The message found in the body of a non-2xx response.
messageOf(b) ==
    CASE b.kind = "string" -> Some(b.text)
      [] b.kind \in {"object", "array"} -> OrElse(b.message, errorMessageOf(b))
      [] OTHER -> None

\* Faulty variant: no fallback when the body has no message.
failureOfNoFallback(res, b) == Failure(messageOf(b).value)

\* throw new Error(message || `Request failed: ${res.status}`)
failureOf(res, b) ==
    Failure(OrElse(messageOf(b), Some(RequestFailed(res.status))).value)

\* Faulty variant: every object is taken for an envelope.
isEnvelopeAnyObject(b) == b.kind = "object"

isEnvelope(b) ==
    /\ b.kind = "object"
    /\ b.ok # "absent" \/ b.data # "absent" \/ b.error.present

\* env.data ?? null
dataOf(b) == IF b.data = "payload" THEN Payload ELSE JNull

\* Faulty variant: an envelope succeeds only when ok is true.
unwrapOnlyWhenTrue(b) ==
    IF b.ok # "true"
    THEN Failure(OrElse(errorMessageOf(b), Some("Request failed")).value)
    ELSE Success(dataOf(b))

unwrap(b) ==
    IF b.ok = "false"
    THEN Failure(OrElse(errorMessageOf(b), Some("Request failed")).value)
    ELSE Success(dataOf(b))

envelopeFetcherResult(res) ==
    IF res.json /\ res.malformed THEN Failure(ParseErrorMessage)
    ELSE IF ~resOk(res.status) THEN failureOf(res, res.body)
    ELSE IF isEnvelope(res.body) THEN unwrap(res.body)
    ELSE Success(res.body)

\* await res.json().catch(() => ({})): an unparsable body becomes {}.
jsonOrEmpty(res) ==
    IF res.malformed THEN JObject("absent", "absent", NoError, None) ELSE res.body

\* !res.ok || (json && json.ok === false)
writeFailed(res, json) == ~resOk(res.status) \/ json.ok = "false"

onCreateResult(res) ==
    LET json == jsonOrEmpty(res)
        text == IF json.kind = "string" THEN Some(json.text) ELSE Some("")
        fallback == Some("Failed to create item (" \o ToString(res.status) \o ")")
    IN  IF writeFailed(res, json)
        THEN Failure(OrElse(errorMessageOf(json), OrElse(text, fallback)).value)
        ELSE Success(JNull)

onAddCommentResult(res) ==
    LET json == jsonOrEmpty(res)
        fallback == Some("Failed to add comment (" \o ToString(res.status) \o ")")
    IN  IF writeFailed(res, json)
        THEN Failure(OrElse(errorMessageOf(json), fallback).value)
        ELSE Success(JNull)

\* The wizard is constructed and idle while the detail page runs.
FetcherInit ==
    /\ Fresh("none")
    /\ DashboardAtRest
    /\ ExplorerAtRest
    /\ response \in Responses
    /\ path = "none"
    /\ result = NoResult

\* useSWR runs the fetcher on the response to its GET.
envelopeFetcher ==
    /\ path = "none"
    /\ path' = "read"
    /\ result' = envelopeFetcherResult(response)
    /\ UNCHANGED <<vars, dashVars, expVars, response>>

\* ItemsPanel: the response to the POST of a form with a title.
onCreate ==
    /\ path = "none"
    /\ path' = "create"
    /\ result' = onCreateResult(response)
    /\ UNCHANGED <<vars, dashVars, expVars, response>>

\* ItemDetail: the response to the POST of a non-empty comment.
onAddComment ==
    /\ path = "none"
    /\ path' = "comment"
    /\ result' = onAddCommentResult(response)
    /\ UNCHANGED <<vars, dashVars, expVars, response>>

FetcherNext == envelopeFetcher \/ onCreate \/ onAddComment

FetcherSpec == FetcherInit /\ [][FetcherNext]_allVars

\* The body was read: res.json() or res.text() did not reject.
BodyRead == ~(response.json /\ response.malformed)

\* The body offers a message: a non-empty text, message or error.message.
BodyHasMessage ==
    LET b == response.body
    IN  \/ b.kind = "string" /\ b.text # ""
        \/ b.kind = "object" /\ b.message.has /\ b.message.value # ""
        \/ b.kind = "object" /\ b.error.present /\ b.error.message.has
              /\ b.error.message.value # ""

C14_OkFalsePreserved ==
    (/\ path = "read"
     /\ resOk(response.status)
     /\ BodyRead
     /\ response.body.kind = "object"
     /\ response.body.ok = "false"
     /\ response.body.error.present
     /\ response.body.error.message.has
     /\ response.body.error.message.value # "") =>
        /\ result.tag = "failure"
        /\ result.message = response.body.error.message.value
        /\ result.code = response.body.error.code

\* C15: the read of a 2xx body that is not an object, or is an object with
\* none of the keys ok, data, error, succeeds with the whole body as data.
C15_BarePayloadWrapped ==
    (/\ path = "read"
     /\ resOk(response.status)
     /\ BodyRead
     /\ \/ response.body.kind # "object"
        \/ /\ response.body.ok = "absent"
           /\ response.body.data = "absent"
           /\ ~response.body.error.present) =>
        result = Success(response.body)

\* A 200 whose body is the bare object {"message": "M"} has been read.
C15_Witness ==
    /\ path = "read"
    /\ response.status = 200
    /\ response.body = JObject("absent", "absent", NoError, Some("M"))
    /\ result.tag = "success"
    /\ result.data = response.body

\* C16: the read of a 2xx object body with one of the keys ok, data, error
\* fails if ok is false and otherwise succeeds with the body's data, null
\* when data is absent.
C16_EnvelopeUnwrapped ==
    (/\ path = "read"
     /\ resOk(response.status)
     /\ BodyRead
     /\ response.body.kind = "object"
     /\ \/ response.body.ok # "absent"
        \/ response.body.data # "absent"
        \/ response.body.error.present) =>
        IF response.body.ok = "false"
        THEN result.tag = "failure"
        ELSE /\ result.tag = "success"
             /\ result.data = IF response.body.data = "payload" THEN Payload ELSE JNull

\* A 200 whose body has an error key and no ok key has been read as a success.
C16_Witness ==
    /\ path = "read"
    /\ response.status = 200
    /\ response.body = JObject("absent", "absent", ErrorObject(Some("E"), None), None)
    /\ result = Success(JNull)

\* C17: the message of the failure for a non-2xx response is error.message,
\* else message, else the text of the body, else "Request failed: <status>".
C17_MessagePrecedence ==
    (path = "read" /\ ~resOk(response.status) /\ BodyRead) =>
        LET b == response.body
            fromError == IF b.kind = "object" THEN errorMessageOf(b) ELSE None
            fromMessage == IF b.kind = "object" THEN b.message ELSE None
            fromText == IF b.kind = "string" THEN Some(b.text) ELSE None
        IN  result.message =
              OrElse(fromError, OrElse(fromMessage,
                OrElse(fromText, Some(RequestFailed(response.status))))).value

\* C18: a response that announces JSON and whose body is not valid JSON ends
\* in a failure on the read path and on both write paths, whatever its status.
C18_MalformedJsonFails ==
    (/\ response.json
     /\ response.malformed
     /\ path \in {"read", "create", "comment"}) =>
        result.tag = "failure"

----------------------------------------------------------------------------
(* The dashboard.  dashboard/page.tsx holds two DashboardPage components:
   the first keeps the list in useState and loads it with load() ("state"),
   the second reads it with useSWR and revalidates with mutate() ("swr").
   Both are modelled; which one runs is fixed at construction. *)

MaxDashInFlight == 2

\* A request in flight.  op: "list" | "validate" | "revoke"; by: what issued
\* it ("mount", "retry", "revalidate", "onValidate", "onRevoke"); id: the
\* connection of the handler that awaits it; stale: SWR will drop its response
\* because a later request for the same key has started.
DashRequest(op, id, by) ==
    [op |-> op, id |-> id, by |-> by, stale |-> FALSE, snap |-> EmptyList]

\* The backend reads the list for a list request when the request is sent;
\* snap is what the response will carry.
Sent(reqs, list) == [i \in 1..Len(reqs) |-> [reqs[i] EXCEPT !.snap = list]]

Issued(list) == [snap |-> list, res |-> "pending"]

Handlers == {"onValidate", "onRevoke"}

\* mutate(key) forgets the requests of the key that are under way.
Outdated(reqs) ==
    [i \in 1..Len(reqs) |->
        IF impl = "swr" /\ reqs[i].op = "list"
        THEN [reqs[i] EXCEPT !.stale = TRUE] ELSE reqs[i]]

\* The list the page shows, if it shows one.
shownItems ==
    IF impl = "state"
    THEN IF ~dashLoading /\ dashError = "" THEN dashData.items ELSE EmptyList
    ELSE connections.items

\* "swr": canValidate and canRevoke of ActionButtons.
canValidate(status) == status \in {"connected", "invalid", "pending"}

\* Faulty variant: Revoke is offered whatever the status.
canRevokeAlways(status) == TRUE

canRevoke(status) == status # "revoked"

\* The button of a card is rendered and not disabled.
buttonEnabled(by, id) ==
    /\ dashPhase = "mounted"
    /\ shownItems[id] # "absent"
    /\ IF impl = "state" THEN ~busy[id]
       ELSE IF by = "onValidate"
            THEN canValidate(shownItems[id]) /\ validatingId # id
            ELSE canRevoke(shownItems[id]) /\ revokingId # id

\* The awaited POST let the handler go on to the reload: validateConnection
\* or revokeConnection did not throw ("state"), res.ok ("swr").
postSucceeded(out) == IF impl = "state" THEN out # "throw" ELSE out = "ok"

\* Faulty variant: the handler does not reload the list.
revalidateAfterPostNever(id, by) == <<>>

\* await load() / await mutate("/api/connections")
revalidateAfterPost(id, by) == <<DashRequest("list", id, by)>>

\* The backend's state after it accepted a POST.
serverAfter(op, id) ==
    IF server[id] = "absent" THEN server
    ELSE [server EXCEPT ![id] = IF op = "revoke" THEN "revoked" ELSE "connected"]

\* The connections the backend holds when the page is opened: none, one
\* (connected or invalid) or two connected ones.
InitialLists ==
    {list \in [ConnIds -> {"connected", "invalid", "absent"}] :
        /\ list["c2"] # "invalid"
        /\ list["c1"] # "invalid" \/ list["c2"] = "absent"}

DashInit ==
    /\ Fresh("none")
    /\ FetchersAtRest
    /\ ExplorerAtRest
    /\ impl \in {"state", "swr"}
    /\ dashPhase = "constructed"
    /\ server \in InitialLists
    /\ DashFresh
    /\ dashLast = DashRan("construct", "", "")

\* Nothing but the dashboard's own state moves.
DashFrame == UNCHANGED <<vars, fetchVars, expVars, impl>>

\* The mount effect calls load(); useSWR starts its first request.
DashMount ==
    /\ dashPhase = "constructed"
    /\ dashPhase' = "mounted"
    /\ dashInflight' = dashInflight \o Sent(<<DashRequest("list", "", "mount")>>, server)
    /\ newest' = Issued(server)
    /\ dashLast' = DashRan("mount", "", "call")
    /\ UNCHANGED <<server, dashData, dashLoading, dashError, busy, connections,
                   connectionsError, validatingId, revokingId>>
    /\ DashFrame

\* The Validate button of card id.
onValidate(id) ==
    /\ buttonEnabled("onValidate", id)
    /\ Len(dashInflight) < MaxDashInFlight
    /\ IF impl = "state"
       THEN busy' = [busy EXCEPT ![id] = TRUE] /\ UNCHANGED validatingId
       ELSE validatingId' = id /\ UNCHANGED busy
    /\ dashInflight' = Append(dashInflight, DashRequest("validate", id, "onValidate"))
    /\ dashLast' = DashRan("onValidate", id, "call")
    /\ UNCHANGED <<dashPhase, server, newest, dashData, dashLoading, dashError, connections,
                   connectionsError, revokingId>>
    /\ DashFrame

\* Faulty variant: the answer to the confirmation dialog is ignored.
declinedIgnored(confirmed) == FALSE

\* if (!confirm(...)) return;
declined(confirmed) == ~confirmed

\* The Revoke button of card id; confirmed is the answer to confirm().
onRevoke(id, confirmed) ==
    /\ buttonEnabled("onRevoke", id)
    /\ confirmed => Len(dashInflight) < MaxDashInFlight
    /\ dashLast' = DashRan("onRevoke", id, IF confirmed THEN "call" ELSE "declined")
    /\ IF declined(confirmed)
       THEN UNCHANGED <<busy, revokingId, dashInflight>>
       ELSE /\ IF impl = "state"
               THEN busy' = [busy EXCEPT ![id] = TRUE] /\ UNCHANGED revokingId
               ELSE revokingId' = id /\ UNCHANGED busy
            /\ dashInflight' = Append(dashInflight, DashRequest("revoke", id, "onRevoke"))
    /\ UNCHANGED <<dashPhase, server, newest, dashData, dashLoading, dashError,
                   connections, connectionsError, validatingId>>
    /\ DashFrame

\* The POST of a handler is answered: the handler goes on to reload the list,
\* or catches, alerts and releases its flag.
PostResponse(i, out) ==
    /\ dashInflight[i].op \in {"validate", "revoke"}
    /\ LET req == dashInflight[i]
           rest == RemoveAt(dashInflight, i)
       IN  /\ server' = IF out = "ok" THEN serverAfter(req.op, req.id) ELSE server
           /\ dashLast' = DashRan(req.by, req.id, out)
           /\ IF postSucceeded(out)
              THEN /\ dashInflight' =
                        Outdated(rest) \o Sent(revalidateAfterPost(req.id, req.by), server')
                   /\ newest' = IF revalidateAfterPost(req.id, req.by) # <<>>
                                THEN Issued(server') ELSE newest
                   /\ IF impl = "state"
                      THEN dashLoading' = TRUE /\ dashError' = ""
                      ELSE UNCHANGED <<dashLoading, dashError>>
                   /\ UNCHANGED <<busy, validatingId, revokingId>>
              ELSE /\ dashInflight' = rest
                   /\ UNCHANGED newest
                   /\ busy' = IF impl = "state" THEN [busy EXCEPT ![req.id] = FALSE] ELSE busy
                   /\ validatingId' =
                        IF impl = "swr" /\ req.by = "onValidate" THEN "" ELSE validatingId
                   /\ revokingId' =
                        IF impl = "swr" /\ req.by = "onRevoke" THEN "" ELSE revokingId
                   /\ UNCHANGED <<dashLoading, dashError>>
    /\ UNCHANGED <<dashPhase, dashData, connections, connectionsError>>
    /\ DashFrame

\* A list request is answered.  "state": load() stores the list or the error
\* and clears loading.  "swr": the cache takes the response unless a later
\* request has started.  A handler that awaited the reload then releases its flag.
ListResponse(i, out) ==
    /\ dashInflight[i].op = "list"
    /\ impl = "swr" => out # "null"
    /\ LET req == dashInflight[i]
           items == IF out = "ok" THEN req.snap ELSE EmptyList
           isNewest == /\ newest.res = "pending"
                       /\ \A j \in (i + 1)..Len(dashInflight) : dashInflight[j].op # "list"
       IN  /\ dashInflight' = RemoveAt(dashInflight, i)
           /\ newest' = IF isNewest THEN [newest EXCEPT !.res = out] ELSE newest
           /\ dashLast' = DashRan(IF req.by \in Handlers THEN req.by ELSE "load", req.id,
                                  IF out = "throw" THEN "reload-failed" ELSE "reloaded")
           /\ IF impl = "state"
              THEN /\ dashData' = Loaded(items)
                   /\ dashError' = IF out = "throw" THEN "Failed to load" ELSE dashError
                   /\ dashLoading' = FALSE
                   /\ busy' = IF req.by \in Handlers
                              THEN [busy EXCEPT ![req.id] = FALSE] ELSE busy
                   /\ UNCHANGED <<connections, connectionsError, validatingId, revokingId>>
              ELSE /\ connections' =
                        IF ~req.stale /\ out = "ok" THEN Loaded(items) ELSE connections
                   /\ connectionsError' =
                        IF req.stale THEN connectionsError ELSE out = "throw"
                   /\ validatingId' = IF req.by = "onValidate" THEN "" ELSE validatingId
                   /\ revokingId' = IF req.by = "onRevoke" THEN "" ELSE revokingId
                   /\ UNCHANGED <<dashData, dashError, dashLoading, busy>>
    /\ UNCHANGED <<dashPhase, server>>
    /\ DashFrame

\* "state": the Retry button of the error banner calls load().
onRetry ==
    /\ impl = "state"
    /\ dashPhase = "mounted"
    /\ dashError # ""
    /\ Len(dashInflight) < MaxDashInFlight
    /\ dashLoading' = TRUE
    /\ dashError' = ""
    /\ dashInflight' = dashInflight \o Sent(<<DashRequest("list", "", "retry")>>, server)
    /\ newest' = Issued(server)
    /\ dashLast' = DashRan("load", "", "call")
    /\ UNCHANGED <<dashPhase, server, dashData, busy, connections, connectionsError,
                   validatingId, revokingId>>
    /\ DashFrame

\* "swr": the refresh interval, a focus or a reconnect revalidates, unless a
\* request of the key is already under way.
Revalidate ==
    /\ impl = "swr"
    /\ dashPhase = "mounted"
    /\ \A i \in 1..Len(dashInflight) :
          dashInflight[i].op = "list" => dashInflight[i].stale
    /\ Len(dashInflight) < MaxDashInFlight
    /\ dashInflight' =
         dashInflight \o Sent(<<DashRequest("list", "", "revalidate")>>, server)
    /\ newest' = Issued(server)
    /\ dashLast' = DashRan("revalidate", "", "call")
    /\ UNCHANGED <<dashPhase, server, dashData, dashLoading, dashError, busy,
                   connections, connectionsError, validatingId, revokingId>>
    /\ DashFrame

DashNext ==
    \/ DashMount
    \/ \E id \in ConnIds : onValidate(id)
    \/ \E id \in ConnIds, confirmed \in BOOLEAN : onRevoke(id, confirmed)
    \/ \E i \in 1..Len(dashInflight), out \in {"ok", "fail", "throw"} : PostResponse(i, out)
    \/ \E i \in 1..Len(dashInflight), out \in {"ok", "null", "throw"} : ListResponse(i, out)
    \/ onRetry
    \/ Revalidate

DashSpec == DashInit /\ [][DashNext]_allVars

\* The requests of reqs that are list requests, and those that post op for id.
ListCount(reqs) == Cardinality({i \in 1..Len(reqs) : reqs[i].op = "list"})
PostCount(reqs, ops, id) ==
    Cardinality({i \in 1..Len(reqs) : reqs[i].op \in ops /\ reqs[i].id = id})

\* C19: a confirmed Revoke of a connection issues one POST to its revoke
\* endpoint and no list request; when the POST is accepted the handler issues
\* one list request; the end of that reload issues nothing; and no other step
\* posts a revoke.
C19_RevokeOnePostThenOneReload ==
    [][\A id \in ConnIds :
        LET posts == PostCount(dashInflight, {"revoke"}, id)
            postsAfter == PostCount(dashInflight', {"revoke"}, id)
            lists == ListCount(dashInflight)
            listsAfter == ListCount(dashInflight')
        IN  /\ dashLast' = DashRan("onRevoke", id, "call") =>
                  postsAfter = posts + 1 /\ listsAfter = lists
            /\ dashLast' = DashRan("onRevoke", id, "ok") =>
                  /\ postsAfter = posts - 1
                  /\ listsAfter = lists + 1
                  /\ dashInflight'[Len(dashInflight')] =
                        Sent(<<DashRequest("list", id, "onRevoke")>>, server')[1]
            /\ dashLast' \in {DashRan("onRevoke", id, "reloaded"),
                               DashRan("onRevoke", id, "reload-failed")} =>
                  postsAfter = posts /\ listsAfter = lists - 1
            /\ ~(dashLast'.op = "onRevoke" /\ dashLast'.id = id) => postsAfter = posts
      ]_allVars

\* The revoke of c1 was accepted and its reload is the one list request under way.
C19_Witness ==
    /\ dashLast = DashRan("onRevoke", "c1", "ok")
    /\ server["c1"] = "revoked"
    /\ PostCount(dashInflight, {"revoke"}, "c1") = 0
    /\ ListCount(dashInflight) = 1
    /\ dashInflight[Len(dashInflight)] =
         Sent(<<DashRequest("list", "c1", "onRevoke")>>, server)[1]

\* C20: no connection has two validate or revoke requests in flight.
C20_OnePostPerConnection ==
    \A id \in ConnIds : PostCount(dashInflight, {"validate", "revoke"}, id) <= 1

\* "swr": isLoading of useSWR: a request is under way and no data has loaded.
isLoading ==
    /\ ~connections.loaded
    /\ \E i \in 1..Len(dashInflight) :
          dashInflight[i].op = "list" /\ ~dashInflight[i].stale

\* The list has loaded and has no connection.
noItems(list) == list.loaded /\ \A id \in ConnIds : list.items[id] = "absent"

\* The three presentations of the page.
showsError == IF impl = "state" THEN dashError # "" ELSE connectionsError
showsLoading == IF impl = "state" THEN dashLoading ELSE isLoading /\ ~connections.loaded
showsEmpty ==
    IF impl = "state"
    THEN ~dashLoading /\ dashError = "" /\ (~dashData.loaded \/ noItems(dashData))
    ELSE ~isLoading /\ noItems(connections)

\* C21: the page never shows two of "no connections", "loading" and "error".
C21_PresentationsExclusive ==
    dashPhase = "mounted" =>
        /\ ~(showsError /\ showsLoading)
        /\ ~(showsError /\ showsEmpty)
        /\ ~(showsLoading /\ showsEmpty)

----------------------------------------------------------------------------
(* The connection explorer, connections/[id]: the tabs held in the URL query,
   the panels' local state and the SWR reads and writes of the panels.  The
   connection header's and the containers panel's reads, which no handler
   here depends on, and the containerId part of the items key, which no
   handler changes, are left out.  router.push is taken to update
   the query at once. *)

MaxExplorerInFlight == 2

TabKeys == {"containers", "items", "item", "raw"}

\* searchParams.get("tab") || "containers"
tabParam == IF tab = "" THEN "containers" ELSE tab

\* A request in flight.  by: "swr" for a read a hook started, else the handler
\* awaiting it; detached: the panel that issued it has unmounted since.
ExpRequest(method, key, by) ==
    [method |-> method, key |-> key, by |-> by, detached |-> FALSE]

\* Faulty variant: an absent itemId is taken for an item.
noItemNever(iid) == FALSE

\* !itemId
noItem(iid) == iid = ""

\* The keys the hooks of the panel of tab t read, in hook order; the key of
\* ItemDetail's hooks is null without an itemId.
ReadsOf(t, iid, qq) ==
    CASE t = "items" -> <<itemsKey(qq)>>
      [] t = "item" /\ ~noItem(iid) -> <<itemKey(iid), commentsKey(iid)>>
      [] OTHER -> <<>>

\* A hook starts a read of its key unless one is under way.
reading(reqs, k) == \E i \in 1..Len(reqs) : reqs[i].method = "GET" /\ reqs[i].key = k
StartReads(reqs, keys) ==
    LET fresh == SelectSeq(keys, LAMBDA k : ~reading(reqs, k))
    IN  reqs \o [i \in 1..Len(fresh) |-> ExpRequest("GET", fresh[i], "swr")]

\* The handlers of an unmounted panel no longer reach its state.
Detach(reqs) ==
    [i \in 1..Len(reqs) |->
        IF reqs[i].by # "swr" THEN [reqs[i] EXCEPT !.detached = TRUE] ELSE reqs[i]]

\* Faulty variant: itemId is kept whatever the tab.
itemIdAfterTabChangeKept(key, iid) == iid

\* if (key !== "item") usp.delete("itemId")
itemIdAfterTabChange(key, iid) == IF key # "item" THEN "" ELSE iid

ExplorerInit ==
    /\ Fresh("none")
    /\ FetchersAtRest
    /\ DashboardAtRest
    /\ tab \in TabKeys \cup {""}
    /\ itemId \in ItemIds \cup {""}
    /\ q \in Queries
    /\ containerId = "k1"
    /\ activeTab = tabParam
    /\ search = q
    /\ ExplorerFresh
    /\ expPhase = "constructed"
    /\ expLast = Ran("construct", "")

\* Nothing but the explorer's own state moves.
ExplorerFrame == UNCHANGED <<vars, fetchVars, dashVars>>

\* The hooks of the panel shown start their reads.
ExplorerMount ==
    /\ expPhase = "constructed"
    /\ expPhase' = "mounted"
    /\ expInflight' = StartReads(expInflight, ReadsOf(activeTab, itemId, q))
    /\ expLast' = Ran("mount", "")
    /\ UNCHANGED <<tab, itemId, q, containerId, activeTab, search, creating,
                   formTitle, comment, saving, cache>>
    /\ ExplorerFrame

\* A tab of TabNav is clicked.  Another panel than the one shown mounts with
\* fresh local state and starts its reads.
onTabChange(key) ==
    /\ expPhase = "mounted"
    /\ tab' = key
    /\ itemId' = itemIdAfterTabChange(key, itemId)
    /\ activeTab' = key
    /\ IF key = activeTab
       THEN UNCHANGED <<search, creating, formTitle, comment, saving, expInflight>>
       ELSE /\ search' = IF key = "items" THEN q ELSE ""
            /\ creating' = FALSE
            /\ formTitle' = <<>>
            /\ comment' = <<>>
            /\ saving' = FALSE
            /\ Len(StartReads(expInflight, ReadsOf(key, itemId', q))) <= MaxExplorerInFlight
            /\ expInflight' = StartReads(Detach(expInflight), ReadsOf(key, itemId', q))
    /\ expLast' = Ran("onTabChange", key)
    /\ UNCHANGED <<q, containerId, cache, expPhase>>
    /\ ExplorerFrame

\* ItemOpenButton of a listed item.
onOpen(iid) ==
    /\ expPhase = "mounted"
    /\ activeTab = "items"
    /\ cache[itemsKey(q)] = "loaded"
    /\ tab' = "item"
    /\ itemId' = iid
    /\ expLast' = Ran("onOpen", iid)
    /\ UNCHANGED <<q, containerId, activeTab, search, creating, formTitle, comment,
                   saving, cache, expPhase, expInflight>>
    /\ ExplorerFrame

\* ItemsPanel: the search box is edited.
setSearch(v) ==
    /\ expPhase = "mounted"
    /\ activeTab = "items"
    /\ search' = v
    /\ expLast' = Ran("setSearch", v)
    /\ UNCHANGED <<tab, itemId, q, containerId, activeTab, creating, formTitle,
                   comment, saving, cache, expPhase, expInflight>>
    /\ ExplorerFrame

\* ItemsPanel: the search form is submitted; the items hook reads its new key.
onSearch ==
    /\ expPhase = "mounted"
    /\ activeTab = "items"
    /\ q' = search
    /\ Len(StartReads(expInflight, <<itemsKey(search)>>)) <= MaxExplorerInFlight
    /\ expInflight' =
         IF search = q THEN expInflight ELSE StartReads(expInflight, <<itemsKey(search)>>)
    /\ expLast' = Ran("onSearch", search)
    /\ UNCHANGED <<tab, itemId, containerId, activeTab, search, creating, formTitle,
                   comment, saving, cache, expPhase>>
    /\ ExplorerFrame

\* What the user can type into the title and the comment box.
TextInputs == {<<>>, <<" ">>, <<" ", "a">>}

\* String.prototype.trim, on the characters used here.
RECURSIVE trimStart(_)
trimStart(s) == IF s # <<>> /\ Head(s) = " " THEN trimStart(Tail(s)) ELSE s

RECURSIVE trimEnd(_)
trimEnd(s) ==
    IF s # <<>> /\ s[Len(s)] = " " THEN trimEnd(SubSeq(s, 1, Len(s) - 1)) ELSE s

trim(s) == trimEnd(trimStart(s))

\* Faulty variant: the text is tested without trimming.
blankUntrimmed(s) == s = <<>>

\* !form.title.trim(), !comment.trim()
blank(s) == trim(s) = <<>>

\* The responses a POST of the explorer is answered with.
WriteResponses ==
    {[status |-> 200, json |-> TRUE, malformed |-> FALSE,
      body |-> JObject("true", "payload", NoError, None)],
     [status |-> 200, json |-> TRUE, malformed |-> FALSE,
      body |-> JObject("false", "absent", ErrorObject(Some("E"), Some("CODE")), None)],
     [status |-> 200, json |-> TRUE, malformed |-> TRUE, body |-> JString("<html>")],
     [status |-> 500, json |-> FALSE, malformed |-> TRUE, body |-> JString("")]}

\* ItemDetail renders the item and, with it, the comment form.
itemShown == activeTab = "item" /\ itemId # "" /\ cache[itemKey(itemId)] = "loaded"

\* ItemsPanel: the title box is edited.
setTitle(v) ==
    /\ expPhase = "mounted"
    /\ activeTab = "items"
    /\ formTitle' = v
    /\ expLast' = Ran("setTitle", "")
    /\ UNCHANGED <<tab, itemId, q, containerId, activeTab, search, creating, comment,
                   saving, cache, expPhase, expInflight>>
    /\ ExplorerFrame

\* ItemDetail: the comment box is edited.
setComment(v) ==
    /\ expPhase = "mounted"
    /\ itemShown
    /\ comment' = v
    /\ expLast' = Ran("setComment", "")
    /\ UNCHANGED <<tab, itemId, q, containerId, activeTab, search, creating, formTitle,
                   saving, cache, expPhase, expInflight>>
    /\ ExplorerFrame

\* ItemsPanel: the create form is submitted, up to the awaited POST.
onCreateSubmit ==
    /\ expPhase = "mounted"
    /\ activeTab = "items"
    /\ ~creating
    /\ IF blank(formTitle)
       THEN /\ expLast' = Ran("onCreate", "rejected")
            /\ UNCHANGED <<creating, expInflight>>
       ELSE /\ Len(expInflight) < MaxExplorerInFlight
            /\ creating' = TRUE
            /\ expInflight' = Append(expInflight, ExpRequest("POST", itemsKey(q), "onCreate"))
            /\ expLast' = Ran("onCreate", "call")
    /\ UNCHANGED <<tab, itemId, q, containerId, activeTab, search, formTitle, comment,
                   saving, cache, expPhase>>
    /\ ExplorerFrame

\* ItemDetail: the comment form is submitted, up to the awaited POST.  The
\* handler returns at once without an itemId.
onAddCommentSubmit ==
    /\ expPhase = "mounted"
    /\ activeTab = "item"
    /\ itemId = "" \/ itemShown
    /\ ~saving
    /\ IF noItem(itemId)
       THEN /\ expLast' = Ran("onAddComment", "no-item")
            /\ UNCHANGED <<saving, expInflight>>
       ELSE IF blank(comment)
       THEN /\ expLast' = Ran("onAddComment", "rejected")
            /\ UNCHANGED <<saving, expInflight>>
       ELSE /\ Len(expInflight) < MaxExplorerInFlight
            /\ saving' = TRUE
            /\ expInflight' =
                 Append(expInflight, ExpRequest("POST", commentsKey(itemId), "onAddComment"))
            /\ expLast' = Ran("onAddComment", "call")
    /\ UNCHANGED <<tab, itemId, q, containerId, activeTab, search, creating, formTitle,
                   comment, cache, expPhase>>
    /\ ExplorerFrame

\* A hook of the panel shown reads the key of the request, and the panel is
\* still the one that issued it.
hookMounted(req) ==
    ~req.detached /\ req.key \in Range(ReadsOf(activeTab, itemId, q))

\* The POST of onCreate or onAddComment is answered: on success the handler
\* revalidates its list with mutate(key), else it alerts and releases its flag.
WriteResponse(i, res) ==
    /\ expInflight[i].method = "POST"
    /\ LET req == expInflight[i]
           rest == RemoveAt(expInflight, i)
           outcome == IF req.by = "onCreate" THEN onCreateResult(res)
                                             ELSE onAddCommentResult(res)
           ok == outcome.tag = "success"
           awaits == ok /\ hookMounted(req)
           mine(by) == req.by = by /\ ~req.detached
       IN  /\ expInflight' =
                IF awaits THEN Append(rest, ExpRequest("GET", req.key, req.by)) ELSE rest
           /\ creating' = IF mine("onCreate") /\ ~awaits THEN FALSE ELSE creating
           /\ formTitle' = IF mine("onCreate") /\ ok /\ ~awaits THEN <<>> ELSE formTitle
           /\ saving' = IF mine("onAddComment") /\ ~awaits THEN FALSE ELSE saving
           /\ comment' = IF mine("onAddComment") /\ ok THEN <<>> ELSE comment
           /\ expLast' = Ran(req.by, IF ok THEN "posted" ELSE "failed")
    /\ UNCHANGED <<tab, itemId, q, containerId, activeTab, search, cache, expPhase>>
    /\ ExplorerFrame

\* A read is answered and the cache takes it; a handler that awaited it
\* finishes: onCreate clears the title, both release their flag.
ReadResponse(i, out) ==
    /\ expInflight[i].method = "GET"
    /\ LET req == expInflight[i]
           mine(by) == req.by = by /\ ~req.detached
       IN  /\ expInflight' = RemoveAt(expInflight, i)
           /\ cache' = [cache EXCEPT ![req.key] = IF out = "ok" THEN "loaded" ELSE "error"]
           /\ creating' = IF mine("onCreate") THEN FALSE ELSE creating
           /\ formTitle' = IF mine("onCreate") THEN <<>> ELSE formTitle
           /\ saving' = IF mine("onAddComment") THEN FALSE ELSE saving
           /\ expLast' = Ran(IF req.by = "swr" THEN "read" ELSE req.by,
                             IF out = "ok" THEN "loaded" ELSE "error")
    /\ UNCHANGED <<tab, itemId, q, containerId, activeTab, search, comment, expPhase>>
    /\ ExplorerFrame

\* Navigation: the tabs, the Open buttons and the search, with the forms of
\* the panels left alone.
ExplorerNext ==
    \/ ExplorerMount
    \/ \E key \in TabKeys : onTabChange(key)
    \/ \E iid \in ItemIds : onOpen(iid)
    \/ \E v \in Queries : setSearch(v)
    \/ onSearch
    \/ \E i \in 1..Len(expInflight), out \in {"ok", "throw"} : ReadResponse(i, out)

ExplorerSpec == ExplorerInit /\ [][ExplorerNext]_allVars

\* The forms of the panels: the page is opened without a search and the
\* search is left alone.
FormsInit == ExplorerInit /\ q = ""

FormsNext ==
    \/ ExplorerMount
    \/ \E key \in TabKeys : onTabChange(key)
    \/ \E iid \in ItemIds : onOpen(iid)
    \/ \E v \in TextInputs : setTitle(v)
    \/ \E v \in TextInputs : setComment(v)
    \/ onCreateSubmit
    \/ onAddCommentSubmit
    \/ \E i \in 1..Len(expInflight), res \in WriteResponses : WriteResponse(i, res)
    \/ \E i \in 1..Len(expInflight), out \in {"ok", "throw"} : ReadResponse(i, out)

FormsSpec == FormsInit /\ [][FormsNext]_allVars

\* C22: a tab change sets tab to the chosen key and leaves q and containerId
\* alone; it removes itemId unless the key is item, and then keeps it.
C22_TabChangeClearsItemId ==
    [][expLast'.op = "onTabChange" =>
          /\ tab' = expLast'.res
          /\ q' = q
          /\ containerId' = containerId
          /\ itemId' = IF expLast'.res = "item" THEN itemId ELSE ""
      ]_allVars

\* The Items tab was chosen under a search and a container: itemId is gone.
C22_Witness ==
    /\ expLast = Ran("onTabChange", "items")
    /\ tab = "items"
    /\ itemId = ""
    /\ q = "s"
    /\ containerId = "k1"

\* The presentations of ItemDetail.
showsPlaceholder == activeTab = "item" /\ noItem(itemId)
itemLoading ==
    /\ activeTab = "item"
    /\ ~noItem(itemId)
    /\ cache[itemKey(itemId)] = "none"
    /\ reading(expInflight, itemKey(itemId))
itemError == activeTab = "item" /\ ~noItem(itemId) /\ cache[itemKey(itemId)] = "error"

\* The requests for an item or its comments: all but those for the items list.
ItemRequests(reqs) ==
    {i \in 1..Len(reqs) : reqs[i].key \notin {itemsKey(qq) : qq \in Queries}}

\* C23: on the item tab without an itemId the placeholder is shown and neither
\* the loading nor the error state; no step that ends there issues a request
\* for an item or its comments; and submitting a comment there changes nothing.
C23_PlaceholderWithoutItem ==
    /\ [](expPhase = "mounted" /\ tab = "item" /\ itemId = "" =>
            activeTab = "item" /\ showsPlaceholder /\ ~itemLoading /\ ~itemError)
    /\ [][(expPhase' = "mounted" /\ tab' = "item" /\ itemId' = "") =>
            Cardinality(ItemRequests(expInflight'))
                <= Cardinality(ItemRequests(expInflight))]_allVars
    /\ [][(/\ tab = "item"
           /\ itemId = ""
           /\ expLast'.op = "onAddComment"
           /\ expLast'.res \in {"no-item", "rejected", "call"}) =>
            UNCHANGED <<tab, itemId, q, containerId, activeTab, search, creating,
                        formTitle, comment, saving, cache, expInflight>>]_allVars

\* A comment was submitted on the item tab without an itemId.
C23_Witness ==
    /\ expPhase = "mounted"
    /\ tab = "item"
    /\ itemId = ""
    /\ showsPlaceholder
    /\ expLast = Ran("onAddComment", "no-item")
    /\ expInflight = <<>>

\* C24: the panel shown is the one the tab parameter of the URL names,
\* containers when it is absent.
C24_PanelFollowsUrl == expPhase = "mounted" => activeTab = tabParam

\* C25: once every list request of the dashboard has completed, the list on
\* screen is the response of the load that was issued last.
C25_NewestLoadShown ==
    (/\ dashPhase = "mounted"
     /\ ListCount(dashInflight) = 0
     /\ newest.res = "ok")
        => shownItems = newest.snap

----------------------------------------------------------------------------
(* The wizard and the dashboard together: one page is open at a time *)

\* The page that was opened is the one that takes steps.
PagesInit == Init \/ DashInit

PagesNext ==
    \/ impl = "none" /\ Next
    \/ impl # "none" /\ DashNext

PagesSpec == PagesInit /\ [][PagesNext]_allVars

\* The handlers of the wizard that set loading around a backend call.
WizardActions == {"handleInitiateOAuth", "handleCreateApiKeyConnection", "handleValidate"}

\* No busy flag of the page that is open is set.
flagsReleased ==
    /\ ~loading
    /\ \A id \in ConnIds : ~busy[id]
    /\ validatingId = ""
    /\ revokingId = ""

\* C26: when a backend action of the wizard completes, with any outcome,
\* loading is false; when a validate or revoke of the dashboard completes, with
\* any outcome, the busy marker of its id is cleared; and no flag is set while
\* no request is outstanding.
C26_BusyFlagsReleased ==
    /\ []((phase \in {"constructed", "mounted"} /\ inflight = <<>> /\ dashInflight = <<>>)
            => flagsReleased)
    /\ [][(last' # last /\ last'.op \in WizardActions /\ last'.res # "call")
            => ~loading']_allVars
    /\ [][(/\ dashLast' # dashLast
           /\ dashLast'.op \in Handlers
           /\ \/ dashLast'.res \in {"reloaded", "reload-failed"}
              \/ dashLast'.res \in {"fail", "throw"} /\ ~postSucceeded(dashLast'.res))
            => (/\ ~busy'[dashLast'.id]
                /\ dashLast'.op = "onValidate" => validatingId' # dashLast'.id
                /\ dashLast'.op = "onRevoke" => revokingId' # dashLast'.id)]_allVars

C26_Witness ==
    \/ /\ last = Ran("handleValidate", "throw")
       /\ inflight = <<>>
       /\ ~loading
    \/ /\ dashLast = DashRan("onRevoke", "c2", "reload-failed")
       /\ dashInflight = <<>>
       /\ flagsReleased

\* C27: when the user declines the confirmation of Revoke, no request is
\* issued, no list revalidation starts, and the busy markers and the list stay
\* as they were.
C27_DeclinedRevokeChangesNothing ==
    [][(dashLast' # dashLast /\ dashLast'.op = "onRevoke" /\ dashLast'.res = "declined")
        => UNCHANGED <<dashInflight, newest, server, busy, validatingId, revokingId,
                       dashData, dashLoading, dashError, connections,
                       connectionsError>>]_allVars

C27_Witness ==
    /\ dashLast = DashRan("onRevoke", "c2", "declined")
    /\ shownItems["c2"] = "connected"
    /\ server["c2"] = "connected"
    /\ dashInflight = <<>>

\* C28: when initiateOAuth answers ok without a non-empty authUrl the browser
\* is not redirected, the error envelope MISSING_AUTH_URL is attached and the
\* handler leaves the step alone; the handler redirects only on an ok answer
\* with a non-empty authUrl.
C28_NoRedirectWithoutAuthUrl ==
    [][(inflight' # inflight /\ last'.op = "handleInitiateOAuth")
        => /\ last'.res = "missing_url"
                => /\ route' = route
                   /\ errorEnvelope' = FailEnvelope("MISSING_AUTH_URL")
                   /\ step' = step
           /\ route' # route
                => /\ last'.res = "redirect"
                   /\ route' = ProviderUrl]_allVars

C28_Witness ==
    /\ last = Ran("handleInitiateOAuth", "missing_url")
    /\ errorEnvelope = FailEnvelope("MISSING_AUTH_URL")
    /\ step = "auth"
    /\ route = "/wizard"
    /\ ~loading

\* C29: in the SWR implementation neither Validate nor Revoke is enabled for a
\* connection shown as revoked, and no validate or revoke request is issued
\* for one.
C29_RevokedIsGated ==
    /\ [](impl = "swr" =>
            \A id \in ConnIds :
                shownItems[id] = "revoked"
                    => ~buttonEnabled("onValidate", id) /\ ~buttonEnabled("onRevoke", id))
    /\ [][(/\ impl = "swr"
           /\ Len(dashInflight') > Len(dashInflight)
           /\ dashInflight'[Len(dashInflight')].op \in {"validate", "revoke"})
            => shownItems[dashInflight'[Len(dashInflight')].id] # "revoked"]_allVars

C29_Witness ==
    /\ impl = "swr"
    /\ dashPhase = "mounted"
    /\ connections.items["c2"] = "revoked"
    /\ dashInflight = <<>>
    /\ validatingId = ""
    /\ revokingId = ""
    /\ ~ENABLED onValidate("c2")
    /\ ~ENABLED onRevoke("c2", TRUE)
    /\ ENABLED onValidate("c1")

\* C30: submitting the create form with an empty or whitespace-only title, or
\* the comment form with an empty or whitespace-only body, issues no request
\* and leaves the creating and saving flags, the form contents and the cached
\* lists as they were; a POST is issued only for a text that is not blank.
C30_BlankInputIsLocal ==
    /\ [][(/\ expLast' # expLast
           /\ expLast'.res \in {"rejected", "call"}
           /\ \/ expLast'.op = "onCreate" /\ trim(formTitle) = <<>>
              \/ expLast'.op = "onAddComment" /\ trim(comment) = <<>>)
            => UNCHANGED <<expInflight, creating, saving, formTitle, comment, cache>>]_allVars
    /\ [][(/\ Len(expInflight') > Len(expInflight)
           /\ expInflight'[Len(expInflight')].method = "POST")
            => IF expInflight'[Len(expInflight')].by = "onCreate"
               THEN trim(formTitle) # <<>>
               ELSE trim(comment) # <<>>]_allVars

C30_Witness ==
    /\ expLast = Ran("onAddComment", "rejected")
    /\ comment = <<" ">>
    /\ itemShown
    /\ ~saving
    /\ \A i \in 1..Len(expInflight) : expInflight[i].method # "POST"

============================================================================
